---- MODULE Spec2Model ----
(***************************************************************************)
(* Model of the CSS selector builder of src/src/05-objects-tasks.js:       *)
(* class SelectorBuilder and the shared root instance cssSelectorBuilder.  *)
(*                                                                         *)
(* A JavaScript string is modelled as a sequence of one-character strings, *)
(* so that String.prototype.includes is a real substring search.           *)
(* Builder instances live in a heap (a sequence of records); heap[1] is    *)
(* cssSelectorBuilder.  Every method call is one atomic action.            *)
(* lineage records, for every instance, the parts appended on the way to   *)
(* it; sites records which call site created each instance, the value it   *)
(* was created with, and the call site of the last call.                   *)
(***************************************************************************)
EXTENDS Integers, Sequences, FiniteSets

VARIABLES heap, lineage, last, sites

vars == <<heap, lineage, last, sites>>

(***************************************************************************)
(* Bounds of the model.                                                    *)
(***************************************************************************)
\* largest number of instances (root included) in the general specifications
MaxBuilders == 4
\* largest number of parts appended in the chain specification
MaxChain == 6
\* largest number of instances (root included) when two call sites interleave
MaxSiteBuilders == 3

(***************************************************************************)
(* Inputs: fragments and combinator tokens.                                *)
(***************************************************************************)
\* fragments without marker characters
CleanFragments == { <<"a">> }
\* fragments that contain a marker character
MarkedFragments == { <<"x", ":">> }
Fragments == CleanFragments \cup MarkedFragments
\* combinator tokens: one of the documented set, one outside it
Tokens == { <<"+">>, <<"?">> }

(***************************************************************************)
(* The program.                                                            *)
(***************************************************************************)
\* the root instance: new SelectorBuilder()
Root == 1

\* the two Error messages thrown by isError
DuplicateUniquePartError == "DuplicateUniquePartError"
OutOfOrderError == "OutOfOrderError"

\* this.elementsSymbols
elementsSymbols == << <<>>, <<"#">>, <<".">>, <<"[">>, <<":">>, <<":", ":">> >>

\* constructor(value = '', elementCount = 0)
SelectorBuilder(value, elementCount) ==
  [value |-> value, elementCount |-> elementCount]

\* String.prototype.includes: sel occurs in value as a contiguous substring
includes(value, sel) ==
  \E i \in 0..(Len(value) - Len(sel)) : SubSeq(value, i + 1, i + Len(sel)) = sel

\* elementsSymbols.indexOf(selector), 1-based
indexOf(selector) ==
  CHOOSE i \in 1..Len(elementsSymbols) :
    /\ elementsSymbols[i] = selector
    /\ \A j \in 1..(i - 1) : elementsSymbols[j] # selector

\* isElementRepeats with the comparison off by one: elementCount > 1
isElementRepeatsOffByOne(this, selector) ==
  selector = <<>> /\ this.elementCount > 1

\* const isElementRepeats = selector === '' && elementCount > 0
isElementRepeats(this, selector) ==
  selector = <<>> /\ this.elementCount > 0

\* isIdOrPseudoRepeats with the '::' alternative forgotten
isIdOrPseudoRepeatsIdOnly(this, selector) ==
  selector = <<"#">> /\ includes(this.value, selector)

\* isIdOrPseudoRepeats with the '#' alternative forgotten
isIdOrPseudoRepeatsPseudoOnly(this, selector) ==
  selector = <<":", ":">> /\ includes(this.value, selector)

\* const isIdOrPseudoRepeats = (selector === '#' || selector === '::') && value.includes(selector)
isIdOrPseudoRepeats(this, selector) ==
  (selector = <<"#">> \/ selector = <<":", ":">>) /\ includes(this.value, selector)

\* elementsSymbols.slice(index): the candidate's own marker is kept
errorSelectorsFromIndex(selector) ==
  SubSeq(elementsSymbols, indexOf(selector), Len(elementsSymbols))

\* elementsSymbols.slice(index + 2): the next kind's marker is skipped
errorSelectorsSkipNext(selector) ==
  SubSeq(elementsSymbols, indexOf(selector) + 2, Len(elementsSymbols))

\* elementsSymbols.slice(index + 1)
errorSelectors(selector) ==
  SubSeq(elementsSymbols, indexOf(selector) + 1, Len(elementsSymbols))

\* isError(selector) with the two checks in the other order
isErrorOrderFirst(this, selector) ==
  IF \E n \in 1..Len(errorSelectors(selector)) :
       includes(this.value, errorSelectors(selector)[n])
    THEN OutOfOrderError
    ELSE IF isElementRepeats(this, selector) \/ isIdOrPseudoRepeats(this, selector)
           THEN DuplicateUniquePartError
           ELSE "ok"

\* isError(selector): the error thrown, or "ok" when the method returns normally
isError(this, selector) ==
  IF isElementRepeats(this, selector) \/ isIdOrPseudoRepeats(this, selector)
    THEN DuplicateUniquePartError
    ELSE IF \E n \in 1..Len(errorSelectors(selector)) :
              includes(this.value, errorSelectors(selector)[n])
           THEN OutOfOrderError
           ELSE "ok"

\* the record of a call that has not happened
NoCall ==
  [op |-> "none", recv |-> 0, v |-> <<>>, a |-> 0, tok |-> <<>>, b |-> 0,
   status |-> "ok", new |-> 0, str |-> <<>>, rep |-> FALSE, prevStr |-> <<>>]

\* a part-appending method: this.isError(selector); return new SelectorBuilder(...)
\* cap is the largest heap the specification allows
appendPart(i, kind, selector, v, created, cap) ==
  LET err == isError(heap[i], selector) IN
  /\ i \in 1..Len(heap)
  /\ err # "ok" \/ Len(heap) < cap
  /\ IF err = "ok"
       THEN /\ heap' = Append(heap, created)
            /\ lineage' = Append(lineage,
                 [parts |-> Append(lineage[i].parts, <<kind, v>>),
                  combined |-> lineage[i].combined])
            /\ last' = [NoCall EXCEPT !.op = kind, !.recv = i, !.v = v,
                                      !.new = Len(heap) + 1]
       ELSE /\ UNCHANGED <<heap, lineage>>
            /\ last' = [NoCall EXCEPT !.op = kind, !.recv = i, !.v = v,
                                      !.status = err]

\* element(v) that counts on the receiver: this.elementCount += 1
elementCounting(i, v, cap) ==
  /\ i \in 1..Len(heap)
  /\ isError(heap[i], <<>>) # "ok" \/ Len(heap) < cap
  /\ LET err == isError(heap[i], <<>>) IN
     IF err = "ok"
       THEN /\ heap' = Append([heap EXCEPT ![i].elementCount = @ + 1],
                              SelectorBuilder(heap[i].value \o v,
                                              heap[i].elementCount + 1))
            /\ lineage' = Append(lineage,
                 [parts |-> Append(lineage[i].parts, <<"element", v>>),
                  combined |-> lineage[i].combined])
            /\ last' = [NoCall EXCEPT !.op = "element", !.recv = i, !.v = v,
                                      !.new = Len(heap) + 1]
       ELSE /\ UNCHANGED <<heap, lineage>>
            /\ last' = [NoCall EXCEPT !.op = "element", !.recv = i, !.v = v,
                                      !.status = err]

element(i, v, cap) ==
  appendPart(i, "element", <<>>, v,
             SelectorBuilder(heap[i].value \o v, heap[i].elementCount + 1), cap)

id(i, v, cap) ==
  appendPart(i, "id", <<"#">>, v,
             SelectorBuilder(heap[i].value \o <<"#">> \o v, heap[i].elementCount), cap)

class(i, v, cap) ==
  appendPart(i, "class", <<".">>, v,
             SelectorBuilder(heap[i].value \o <<".">> \o v, heap[i].elementCount), cap)

\* attr(v) without the closing bracket
attrUnclosed(i, v, cap) ==
  appendPart(i, "attr", <<"[">>, v,
             SelectorBuilder(heap[i].value \o <<"[">> \o v, heap[i].elementCount), cap)

attr(i, v, cap) ==
  appendPart(i, "attr", <<"[">>, v,
             SelectorBuilder(heap[i].value \o <<"[">> \o v \o <<"]">>,
                             heap[i].elementCount), cap)

pseudoClass(i, v, cap) ==
  appendPart(i, "pseudoClass", <<":">>, v,
             SelectorBuilder(heap[i].value \o <<":">> \o v, heap[i].elementCount), cap)

pseudoElement(i, v, cap) ==
  appendPart(i, "pseudoElement", <<":", ":">>, v,
             SelectorBuilder(heap[i].value \o <<":", ":">> \o v,
                             heap[i].elementCount), cap)

\* stringify() that also clears the value, as combine does on its receiver
stringifyClearing(i) ==
  /\ i \in 1..Len(heap)
  /\ heap' = [heap EXCEPT ![i] = SelectorBuilder(<<>>, 0)]
  /\ UNCHANGED lineage
  /\ last' = [NoCall EXCEPT !.op = "stringify", !.recv = i, !.str = heap[i].value,
                            !.rep = (last.op = "stringify" /\ last.recv = i),
                            !.prevStr = IF last.op = "stringify" /\ last.recv = i
                                          THEN last.str ELSE <<>>]

\* stringify(): this.elementCount = 0; return this.value
stringify(i) ==
  /\ i \in 1..Len(heap)
  /\ heap' = [heap EXCEPT ![i].elementCount = 0]
  /\ UNCHANGED lineage
  /\ last' = [NoCall EXCEPT !.op = "stringify", !.recv = i, !.str = heap[i].value,
                            !.rep = (last.op = "stringify" /\ last.recv = i),
                            !.prevStr = IF last.op = "stringify" /\ last.recv = i
                                          THEN last.str ELSE <<>>]

\* the template literal without its two spaces
combineValueUnspaced(s1, combiner, s2) ==
  s1 \o combiner \o s2

\* `${selector1.stringify()} ${combiner} ${selector2.stringify()}`
combineValue(s1, combiner, s2) ==
  s1 \o <<" ">> \o combiner \o <<" ">> \o s2

\* combine(...) without the final this.value = '': the receiver keeps the result
combineKeeping(r, a, tok, b) ==
  LET result == combineValue(heap[a].value, tok, heap[b].value) IN
  /\ r \in 1..Len(heap) /\ a \in 1..Len(heap) /\ b \in 1..Len(heap)
  /\ Len(heap) < MaxBuilders
  /\ heap' = Append([n \in 1..Len(heap) |->
                       [value |-> IF n = r THEN result ELSE heap[n].value,
                        elementCount |-> IF n = a \/ n = b THEN 0
                                         ELSE heap[n].elementCount]],
                    SelectorBuilder(result, 0))
  /\ lineage' = Append(lineage, [parts |-> <<>>, combined |-> TRUE])
  /\ last' = [NoCall EXCEPT !.op = "combine", !.recv = r, !.a = a, !.tok = tok,
                            !.b = b, !.new = Len(heap) + 1]

\* combine(selector1, combiner, selector2): both operands are rendered (their
\* elementCount is reset), the receiver's value is assigned and then cleared,
\* and a new instance holding the joined string is returned
combine(r, a, tok, b) ==
  LET result == combineValue(heap[a].value, tok, heap[b].value) IN
  /\ r \in 1..Len(heap) /\ a \in 1..Len(heap) /\ b \in 1..Len(heap)
  /\ Len(heap) < MaxBuilders
  /\ heap' = Append([n \in 1..Len(heap) |->
                       [value |-> IF n = r THEN <<>> ELSE heap[n].value,
                        elementCount |-> IF n = a \/ n = b THEN 0
                                         ELSE heap[n].elementCount]],
                    SelectorBuilder(result, 0))
  /\ lineage' = Append(lineage, [parts |-> <<>>, combined |-> TRUE])
  /\ last' = [NoCall EXCEPT !.op = "combine", !.recv = r, !.a = a, !.tok = tok,
                            !.b = b, !.new = Len(heap) + 1]

(***************************************************************************)
(* Specifications.                                                         *)
(***************************************************************************)
\* const cssSelectorBuilder = new SelectorBuilder()
Init ==
  /\ heap = << SelectorBuilder(<<>>, 0) >>
  /\ lineage = << [parts |-> <<>>, combined |-> FALSE] >>
  /\ last = NoCall
  /\ sites = [owner |-> <<0>>, born |-> << <<>> >>, caller |-> 0]

\* any part-appending call on any instance, with a fragment of frags
PartCall(frags, cap) ==
  \E i \in 1..Len(heap), v \in frags :
    \/ element(i, v, cap)
    \/ id(i, v, cap)
    \/ class(i, v, cap)
    \/ attr(i, v, cap)
    \/ pseudoClass(i, v, cap)
    \/ pseudoElement(i, v, cap)

StringifyCall == \E i \in 1..Len(heap) : stringify(i)

CombineCall ==
  \E r \in 1..Len(heap), a \in 1..Len(heap), b \in 1..Len(heap), tok \in Tokens :
    combine(r, a, tok, b)

\* all operations, on all instances
Next ==
  /\ PartCall(CleanFragments, MaxBuilders) \/ StringifyCall \/ CombineCall
  /\ UNCHANGED sites

Spec == Init /\ [][Next]_vars

\* part-appending and stringify calls only: no combine is involved
NextParts ==
  /\ PartCall(CleanFragments, MaxBuilders) \/ StringifyCall
  /\ UNCHANGED sites

SpecParts == Init /\ [][NextParts]_vars

\* one call site building a single chain: every call is made on the newest instance
NextChain ==
  /\ \/ \E v \in Fragments :
          \/ element(Len(heap), v, MaxChain + 1)
          \/ id(Len(heap), v, MaxChain + 1)
          \/ class(Len(heap), v, MaxChain + 1)
          \/ attr(Len(heap), v, MaxChain + 1)
          \/ pseudoClass(Len(heap), v, MaxChain + 1)
          \/ pseudoElement(Len(heap), v, MaxChain + 1)
     \/ stringify(Len(heap))
  /\ UNCHANGED sites

SpecChain == Init /\ [][NextChain]_vars

\* the call sites
Sites == { 1, 2 }

\* the instances a call site holds a reference to: the root facade and the
\* instances its own calls returned
Mine(s) == { i \in 1..Len(heap) : i = Root \/ sites.owner[i] = s }

\* one call of call site s, on instances it holds
SiteCall(s) ==
  /\ \/ \E i \in Mine(s), v \in CleanFragments :
          \/ element(i, v, MaxSiteBuilders)
          \/ id(i, v, MaxSiteBuilders)
          \/ class(i, v, MaxSiteBuilders)
          \/ attr(i, v, MaxSiteBuilders)
          \/ pseudoClass(i, v, MaxSiteBuilders)
          \/ pseudoElement(i, v, MaxSiteBuilders)
     \/ \E i \in Mine(s) : stringify(i)
     \/ \E r \in Mine(s), a \in Mine(s), b \in Mine(s), tok \in Tokens :
          Len(heap) < MaxSiteBuilders /\ combine(r, a, tok, b)
  /\ sites' = [owner |-> IF Len(heap') > Len(heap)
                           THEN Append(sites.owner, s) ELSE sites.owner,
               born |-> IF Len(heap') > Len(heap)
                          THEN Append(sites.born, heap'[Len(heap')].value)
                          ELSE sites.born,
               caller |-> s]

\* the calls of the two call sites, interleaved in any order
NextSites == \E s \in Sites : SiteCall(s)

SpecSites == Init /\ [][NextSites]_vars

(***************************************************************************)
(* Vocabulary of the properties: the fixed order of the part kinds, the    *)
(* marker characters and the rendering of a part.                          *)
(***************************************************************************)
KindOrder == <<"element", "id", "class", "attr", "pseudoClass", "pseudoElement">>

PartKinds == { KindOrder[n] : n \in 1..Len(KindOrder) }

KindIndex(k) == CHOOSE n \in 1..Len(KindOrder) : KindOrder[n] = k

MarkerChars == { "#", ".", "[", ":" }

MarkerFree(v) == \A n \in 1..Len(v) : v[n] \notin MarkerChars

AllMarkerFree(parts) == \A n \in 1..Len(parts) : MarkerFree(parts[n][2])

HasKind(parts, k) == \E n \in 1..Len(parts) : parts[n][1] = k

\* each kind at most once, in the fixed order
FixedOrderDistinct(parts) ==
  \A m, n \in 1..Len(parts) : m < n => KindIndex(parts[m][1]) < KindIndex(parts[n][1])

NonDecreasing(parts) ==
  \A m, n \in 1..Len(parts) : m < n => KindIndex(parts[m][1]) <= KindIndex(parts[n][1])

\* v, '#'+v, '.'+v, '['+v+']', ':'+v, '::'+v
Rendering(k, v) ==
  CASE k = "element" -> v
    [] k = "id" -> <<"#">> \o v
    [] k = "class" -> <<".">> \o v
    [] k = "attr" -> <<"[">> \o v \o <<"]">>
    [] k = "pseudoClass" -> <<":">> \o v
    [] k = "pseudoElement" -> <<":", ":">> \o v

RECURSIVE RenderParts(_)
RenderParts(parts) ==
  IF parts = <<>> THEN <<>>
  ELSE Rendering(parts[1][1], parts[1][2]) \o RenderParts(Tail(parts))

\* the parts appended in the lineage of the receiver of the last call
RecvParts == lineage[last.recv].parts

\* the last call appended a part (or failed to) on a builder no combine produced
LastIsPartCall == last.op \in PartKinds /\ ~lineage[last.recv].combined

(***************************************************************************)
(* Properties.                                                             *)
(***************************************************************************)
\* C1: a chain started on the root that uses distinct kinds in the fixed order
\* with marker-free fragments never fails, and stringify() on its last builder
\* returns the concatenation, in call order, of the renderings of its parts.
C1_FixedOrderChainRenders ==
  /\ ( /\ LastIsPartCall
       /\ FixedOrderDistinct(Append(RecvParts, <<last.op, last.v>>))
       /\ AllMarkerFree(Append(RecvParts, <<last.op, last.v>>)) )
     => /\ last.status = "ok"
        /\ heap[last.new].value = RenderParts(lineage[last.new].parts)
  /\ ( /\ last.op = "stringify"
       /\ FixedOrderDistinct(RecvParts)
       /\ AllMarkerFree(RecvParts) )
     => last.str = RenderParts(RecvParts)

\* a chain of all six kinds has been built and rendered
C1_Witness ==
  /\ last.op = "stringify"
  /\ Len(RecvParts) = 6
  /\ FixedOrderDistinct(RecvParts)
  /\ AllMarkerFree(RecvParts)
  /\ last.str = <<"a", "#", "a", ".", "a", "[", "a", "]", ":", "a", ":", ":", "a">>

\* C2: once element(v) has succeeded in a lineage, every later element(w) on a
\* builder of that lineage fails with DuplicateUniquePartError, whatever
\* part-appending or stringify() calls were made in between.
C2_SecondElementFails ==
  (LastIsPartCall /\ last.op = "element" /\ HasKind(RecvParts, "element"))
    => last.status = DuplicateUniquePartError

\* C3: once pseudoElement(v) has succeeded in a lineage, every later
\* pseudoElement(w) on a builder of that lineage fails with
\* DuplicateUniquePartError, whatever calls were made in between.
C3_SecondPseudoElementFails ==
  (LastIsPartCall /\ last.op = "pseudoElement" /\ HasKind(RecvParts, "pseudoElement"))
    => last.status = DuplicateUniquePartError

\* a second pseudoElement was attempted after a longer chain, and refused
C3_Witness ==
  /\ LastIsPartCall
  /\ last.op = "pseudoElement"
  /\ HasKind(RecvParts, "pseudoElement")
  /\ Len(RecvParts) >= 3
  /\ last.status = DuplicateUniquePartError

\* C4: a part-appending call whose kind is strictly earlier in the fixed order
\* than a part already appended in the receiver's lineage never succeeds; hence
\* the kinds of the parts of every non-combined builder are non-decreasing.
C4_EarlierKindNeverSucceeds ==
  /\ ( /\ LastIsPartCall
       /\ \E n \in 1..Len(RecvParts) :
            KindIndex(RecvParts[n][1]) > KindIndex(last.op) )
     => last.status # "ok"
  /\ \A i \in 1..Len(heap) : ~lineage[i].combined => NonDecreasing(lineage[i].parts)

\* a class was refused on a builder that already has an attribute part
C4_Witness ==
  /\ LastIsPartCall
  /\ last.op = "class"
  /\ HasKind(RecvParts, "attr")
  /\ ~HasKind(RecvParts, "pseudoClass") /\ ~HasKind(RecvParts, "pseudoElement")
  /\ AllMarkerFree(RecvParts)
  /\ last.status = OutOfOrderError

\* the last call repeated the kind of the receiver's most recent part, one of
\* the given kinds, with marker-free fragments throughout
RepeatsKind(kinds) ==
  /\ LastIsPartCall
  /\ last.op \in kinds
  /\ RecvParts # <<>>
  /\ RecvParts[Len(RecvParts)][1] = last.op
  /\ AllMarkerFree(Append(RecvParts, <<last.op, last.v>>))

\* the last call returned a builder whose value is the receiver's value
\* followed by the rendering of the new part
AppendedToReceiver ==
  /\ last.status = "ok"
  /\ heap[last.new].value = heap[last.recv].value \o Rendering(last.op, last.v)

SymbolOf(k) == elementsSymbols[KindIndex(k)]

\* what a caller observes of a part-appending call on a builder: the error, or
\* the value of the builder returned
Outcome(this, k, v) ==
  IF isError(this, SymbolOf(k)) = "ok"
    THEN <<"ok", this.value \o Rendering(k, v)>>
    ELSE <<isError(this, SymbolOf(k))>>

\* C6: combine(A, tok, B), for any builders A and B (combined ones included)
\* and any token, returns a new builder whose value is
\* stringify(A) + ' ' + tok + ' ' + stringify(B) and whose element count is 0.
C6_CombineJoins ==
  [][last'.op = "combine" =>
       /\ last'.status = "ok"
       /\ Len(heap') = Len(heap) + 1
       /\ last'.new = Len(heap')
       /\ heap'[last'.new].value =
            heap[last'.a].value \o <<" ">> \o last'.tok \o <<" ">> \o heap[last'.b].value
       /\ heap'[last'.new].elementCount = 0]_vars

\* a combine result was combined again, with a token outside the documented set
C6_Witness ==
  /\ last.op = "combine"
  /\ lineage[last.a].combined
  /\ ~lineage[last.b].combined /\ last.b # Root
  /\ last.tok = <<"?">>
  /\ Len(heap[last.new].value) > 5

\* C7: a part-appending call, successful or not, leaves the receiver and every
\* other existing instance unchanged; a successful call returns a fresh
\* instance and a failed call creates none.
C7_AppendMutatesNothing ==
  [][last'.op \in PartKinds =>
       /\ \A i \in 1..Len(heap) : heap'[i] = heap[i]
       /\ last'.status = "ok" => (Len(heap') = Len(heap) + 1 /\ last'.new = Len(heap'))
       /\ last'.status # "ok" => (heap' = heap /\ last'.new = 0)]_vars

\* an element was appended on a builder other than the root, which already
\* counted an element after the call
C7_Witness ==
  /\ last.op = "element"
  /\ last.status = "ok"
  /\ last.recv # Root
  /\ heap[last.new].elementCount = 1

\* C8: the outcome of every part-appending call on a builder is the same
\* whether or not stringify() was called on that builder beforehand.
C8_StringifyNotObservable ==
  [][last'.op = "stringify" =>
       \A k \in PartKinds, v \in Fragments :
         Outcome(heap'[last'.recv], k, v) = Outcome(heap[last'.recv], k, v)]_vars

\* C9: combine mutates no existing instance: the receiver and both operands
\* have the same value and element count after the call as before.
C9_CombineMutatesNothing ==
  [][last'.op = "combine" =>
       \A i \in 1..Len(heap) : heap'[i] = heap[i]]_vars

\* C10: two consecutive stringify() calls on the same instance return the
\* same string.
C10_RenderIdempotent ==
  (last.op = "stringify" /\ last.rep) => last.str = last.prevStr

\* a builder with a non-empty value was rendered twice in a row
C10_Witness ==
  /\ last.op = "stringify"
  /\ last.rep
  /\ last.str # <<>>
  /\ last.prevStr = last.str

\* C11: two call sites that share only the root facade, their calls
\* interleaved in any order, each obtain the results of running alone: the
\* result of a call is decided by the instances the caller holds (the root and
\* the instances its own calls returned), and no call of the other site
\* changes any of those.
C11_OtherSiteInvisible ==
  [][\A s \in Sites :
       sites'.caller # s => \A i \in Mine(s) : heap'[i] = heap[i]]_vars

\* site 2 has combined on the root while site 1 holds a builder with an element
C11_Witness ==
  /\ sites.caller = 2
  /\ last.op = "combine"
  /\ last.recv = Root
  /\ sites.owner[last.new] = 2
  /\ \E i \in 1..Len(heap) : sites.owner[i] = 1 /\ heap[i].elementCount = 1

\* the last call is out of the fixed order: a part of a strictly later kind was
\* appended earlier in the receiver's lineage
LastIsOutOfOrder ==
  /\ LastIsPartCall
  /\ \E n \in 1..Len(RecvParts) : KindIndex(RecvParts[n][1]) > KindIndex(last.op)

\* C12 as stated: every out-of-order call fails with OutOfOrderError.
C12_OutOfOrderAlwaysOrderError ==
  LastIsOutOfOrder => last.status = OutOfOrderError

\* C12: an out-of-order call on a non-combined builder fails with
\* OutOfOrderError, unless it is element on a receiver whose element count is
\* positive or id on a receiver whose value contains '#': it then fails with
\* DuplicateUniquePartError.
C12_OutOfOrderError ==
  LastIsOutOfOrder =>
    last.status =
      IF \/ last.op = "element" /\ heap[last.recv].elementCount > 0
         \/ last.op = "id" /\ includes(heap[last.recv].value, <<"#">>)
        THEN DuplicateUniquePartError
        ELSE OutOfOrderError

\* an element was refused as out of order on a builder with no element part
C12_Witness ==
  /\ LastIsOutOfOrder
  /\ last.op = "element"
  /\ ~HasKind(RecvParts, "element")
  /\ AllMarkerFree(RecvParts)
  /\ Len(RecvParts) >= 2
  /\ last.status = OutOfOrderError

\* the last call repeats a kind that may occur once: element, id, pseudoElement
LastRepeatsUnique ==
  /\ LastIsPartCall
  /\ last.op \in {"element", "id", "pseudoElement"}
  /\ HasKind(RecvParts, last.op)

\* C13: uniqueness is checked before ordering: a call that violates both rules
\* fails with DuplicateUniquePartError, and OutOfOrderError is raised only
\* when no uniqueness rule is violated.
C13_UniquenessBeforeOrder ==
  /\ (LastRepeatsUnique /\ LastIsOutOfOrder) => last.status = DuplicateUniquePartError
  /\ (LastIsPartCall /\ last.status = OutOfOrderError) => ~LastRepeatsUnique

\* the number of occurrences of the character c in the string value
CountChar(value, c) == Cardinality({ n \in 1..Len(value) : value[n] = c })

\* C14: id(v) on a builder whose value already contains '#' fails with
\* DuplicateUniquePartError, so a non-combined selector built without error
\* contains at most one id part.
C14_SecondIdFails ==
  /\ (last.op = "id" /\ includes(heap[last.recv].value, <<"#">>))
       => last.status = DuplicateUniquePartError
  /\ \A i \in 1..Len(heap) : ~lineage[i].combined => CountChar(heap[i].value, "#") <= 1

\* id was refused on the result of combining two builders that have an id
C14_Witness ==
  /\ last.op = "id"
  /\ lineage[last.recv].combined
  /\ CountChar(heap[last.recv].value, "#") = 2
  /\ last.status = DuplicateUniquePartError

\* the instance is the result of a combine call
IsCombineResult(i) == lineage[i].combined /\ lineage[i].parts = <<>>

\* C15: whether a part-appending call succeeds on a builder returned by
\* combine does not depend on the part kinds of the operands: any two combine
\* results accept the same calls.
C15_CombinedIsOpaque ==
  \A i, j \in 1..Len(heap) :
    (IsCombineResult(i) /\ IsCombineResult(j)) =>
      \A k \in PartKinds, v \in Fragments :
        (Outcome(heap[i], k, v)[1] = "ok") <=> (Outcome(heap[j], k, v)[1] = "ok")

\* C16: on a non-combined builder, with arbitrary fragments, a call fails with
\* OutOfOrderError only if a part of a strictly later kind was appended
\* earlier in the receiver's lineage.
C16_OrderErrorOnlyAfterLaterPart ==
  (LastIsPartCall /\ last.status = OutOfOrderError) => LastIsOutOfOrder

\* C17: every stringify() call on an instance returns the value the instance
\* was created with, whatever was called in between.
C17_RenderIsCreationValue ==
  last.op = "stringify" => last.str = sites.born[last.recv]

\* C18: after every operation the root facade has value '' and element count
\* 0, so that stringify() on it returns ''.
C18_RootStaysInitial ==
  /\ heap[Root] = SelectorBuilder(<<>>, 0)
  /\ (last.op = "stringify" /\ last.recv = Root) => last.str = <<>>

\* combine was called on the root with the root itself and a builder that has
\* an element as operands
C18_Witness ==
  /\ last.op = "combine"
  /\ last.recv = Root
  /\ last.a = Root
  /\ last.b # Root
  /\ HasKind(lineage[last.b].parts, "element")

\* C19: every instance has an element count of 0 or 1.
C19_ElementCountAtMostOne ==
  \A i \in 1..Len(heap) : heap[i].elementCount \in {0, 1}

\* element was refused on a builder that counts one element
C19_Witness ==
  /\ last.op = "element"
  /\ last.status = DuplicateUniquePartError
  /\ heap[last.recv].elementCount = 1

====
